---- MODULE Spec2Model ----
(***************************************************************************)
(* Model of src/app.py: the dashboard generator's normalisation pipeline.  *)
(*   load_file -> standardize_columns -> clean_table   (per uploaded file) *)
(*   -> pd.concat of the 'ventas' bucket -> column detection -> date       *)
(*   coercion and segmentadores -> ingreso_total / df_trend -> df_top /    *)
(*   df_loc / df_reg.                                                      *)
(*                                                                         *)
(* A column name is a sequence of one-character strings, so that strip,    *)
(* lower, replace, the \w regex and the keyword test `k in c` are computed *)
(* character by character.  A cell is a pair <<kind, payload>>.  A         *)
(* DataFrame is [columns, dtypes, rows] with rows stored positionally.     *)
(***************************************************************************)
EXTENDS Integers, Sequences, FiniteSets, TLC

VARIABLES
    pc,                 \* position of the script run
    error,              \* the uncaught exception that ended the run ("" while none has)
    T0, T1, T2,         \* a table, and the results of applying a function to it once and twice
    rep1, rep2,         \* the reports of the first and the second clean_table
    uploaded_files,     \* the batch returned by st.file_uploader
    idx,                \* position of the `for file in uploaded_files` loop
    areas,              \* the area st.selectbox returned for each file ("-" before it is asked)
    datasets,           \* area -> list of {'filename', 'df'}
    df_ventas,          \* the concatenated 'ventas' tables
    df_master,          \* the working copy the dashboard filters
    df_parsed,          \* df_master as line 109 leaves it (before any filter)
    col_monto, col_fecha,
    posibles_productos, posibles_locales, posibles_regiones,
    anio_sel, productos_sel, locales_sel, regiones_sel,
    ingreso_total, df_trend,
    warnings,           \* what st.warning has shown
    col_prod, col_loc, col_reg,
    df_top, df_loc, df_reg

vars == <<pc, error, T0, T1, T2, rep1, rep2, uploaded_files, idx, areas, datasets, df_ventas,
          df_master, df_parsed, col_monto, col_fecha,
          posibles_productos, posibles_locales, posibles_regiones,
          anio_sel, productos_sel, locales_sel, regiones_sel,
          ingreso_total, df_trend, warnings, col_prod, col_loc, col_reg,
          df_top, df_loc, df_reg>>

harnessVars == <<T0, T1, T2, rep1, rep2>>
batchVars == <<uploaded_files, idx, areas, datasets, df_ventas>>
dashVars == <<df_master, df_parsed, col_monto, col_fecha,
              posibles_productos, posibles_locales, posibles_regiones,
              anio_sel, productos_sel, locales_sel, regiones_sel,
              ingreso_total, df_trend, warnings, col_prod, col_loc, col_reg,
              df_top, df_loc, df_reg>>

(***************************************************************************)
(* Bounds of the model.                                                    *)
(***************************************************************************)
MaxNameLen == 3     \* longest raw column name drawn for standardize_columns
MaxCleanRows == 3   \* most rows of a table drawn for clean_table
MaxFiles == 3       \* most files of one uploaded batch
MaxRows == 3        \* most rows of a fact table drawn for the dashboard
MaxAggRows == 12    \* most rows (and distinct keys) of a table drawn for the aggregations

(***************************************************************************)
(* Characters.                                                             *)
(***************************************************************************)
UpperSeq == <<"A","B","C","D","E","F","G","H","I","J","K","L","M",
              "N","O","P","Q","R","S","T","U","V","W","X","Y","Z">>
LowerSeq == <<"a","b","c","d","e","f","g","h","i","j","k","l","m",
              "n","o","p","q","r","s","t","u","v","w","x","y","z">>
Digits == {"0","1","2","3","4","5","6","7","8","9"}
Whitespace == {" ", "\t"}

Range(s) == {s[i] : i \in 1..Len(s)}

\* str.lower() on one character
LowerChar(c) ==
    IF \E i \in 1..26 : UpperSeq[i] = c
    THEN LowerSeq[CHOOSE i \in 1..26 : UpperSeq[i] = c]
    ELSE c

\* the regex class \w
IsWord(c) == c \in Range(UpperSeq) \cup Range(LowerSeq) \cup Digits \cup {"_", "ñ"}

(***************************************************************************)
(* standardize_columns (lines 24-35), one str method per operator.         *)
(***************************************************************************)
RECURSIVE LStrip(_)
LStrip(s) == IF s # <<>> /\ Head(s) \in Whitespace THEN LStrip(Tail(s)) ELSE s

RECURSIVE RStrip(_)
RStrip(s) ==
    IF s # <<>> /\ s[Len(s)] \in Whitespace THEN RStrip(SubSeq(s, 1, Len(s) - 1)) ELSE s

StrStrip(s) == RStrip(LStrip(s))

StrLowerNoop(s) == s

StrLower(s) == [i \in 1..Len(s) |-> LowerChar(s[i])]

StrReplace(s, old, new) == [i \in 1..Len(s) |-> IF s[i] = old THEN new ELSE s[i]]

StrRemoveNonWord(s) == SelectSeq(s, IsWord)

StandardizeName(s) ==
    StrRemoveNonWord(StrReplace(StrReplace(StrLower(StrStrip(s)), " ", "_"), "-", "_"))

standardize_columns(df) ==
    [df EXCEPT !.columns = [i \in 1..Len(df.columns) |-> StandardizeName(df.columns[i])]]

(***************************************************************************)
(* Cells and tables.                                                       *)
(***************************************************************************)
NULL == <<"null", 0>>                 \* NaN / None / NaT
Num(n) == <<"num", n>>
Txt(s) == <<"txt", s>>
Lst(n) == <<"list", n>>               \* a JSON array left in a cell by json_normalize
Dt(n) == <<"dt", n>>                  \* a Timestamp, payload yyyymmdd
Kind(v) == v[1]
Val(v) == v[2]

Desconocido == Txt("Desconocido")

None == <<"<None>">>                  \* Python's None where a column name is expected

EmptyDf == [columns |-> <<>>, dtypes |-> <<>>, rows |-> <<>>]

ColIndex(df, c) == CHOOSE i \in 1..Len(df.columns) : df.columns[i] = c
HasCol(df, c) == \E i \in 1..Len(df.columns) : df.columns[i] = c
Cell(df, r, c) == df.rows[r][ColIndex(df, c)]
ColDtype(df, c) == df.dtypes[ColIndex(df, c)]

(***************************************************************************)
(* clean_table (lines 37-50).                                              *)
(***************************************************************************)
\* DataFrame.drop_duplicates(): keep the first occurrence of every row
RECURSIVE DropDupFrom(_, _)
DropDupFrom(rows, kept) ==
    IF rows = <<>> THEN kept
    ELSE IF \E i \in 1..Len(kept) : kept[i] = Head(rows)
         THEN DropDupFrom(Tail(rows), kept)
         ELSE DropDupFrom(Tail(rows), Append(kept, Head(rows)))

drop_duplicates(rows) == DropDupFrom(rows, <<>>)

\* hashing a row for drop_duplicates raises TypeError on an unhashable cell
Unhashable(df) ==
    \E r \in 1..Len(df.rows) : \E i \in 1..Len(df.columns) : Kind(df.rows[r][i]) = "list"

\* df[c].fillna('Desconocido') for c in select_dtypes(include=['object','string'])
FillObjectCols(df, rows) ==
    [r \in 1..Len(rows) |->
        [i \in 1..Len(df.columns) |->
            IF df.dtypes[i] = "object" /\ rows[r][i] = NULL
            THEN Desconocido ELSE rows[r][i]]]

clean_table(df0) ==
    LET df == standardize_columns(df0)
        before_rows == Len(df.rows)
        dedup == drop_duplicates(df.rows)
        after_rows == Len(dedup)
    IN  [df |-> [df EXCEPT !.rows = FillObjectCols(df, dedup)],
         report |-> [rows_before |-> before_rows,
                     rows_after |-> after_rows,
                     deduplicated |-> before_rows - after_rows]]

NoReport == [rows_before |-> 0, rows_after |-> 0, deduplicated |-> 0]

(***************************************************************************)
(* Values the variables hold while a part of the program is not running.   *)
(***************************************************************************)
HarnessIdle == T0 = EmptyDf /\ T1 = EmptyDf /\ T2 = EmptyDf /\ rep1 = NoReport /\ rep2 = NoReport

BatchIdle ==
    /\ uploaded_files = <<>>
    /\ idx = 0
    /\ areas = <<>>
    /\ datasets = [a \in {} |-> <<>>]
    /\ df_ventas = EmptyDf

DashIdle ==
    /\ df_master = EmptyDf /\ df_parsed = EmptyDf
    /\ col_monto = None /\ col_fecha = None
    /\ posibles_productos = <<>> /\ posibles_locales = <<>> /\ posibles_regiones = <<>>
    /\ anio_sel = <<"Todos", 0>>
    /\ productos_sel = {} /\ locales_sel = {} /\ regiones_sel = {}
    /\ ingreso_total = 0
    /\ df_trend = <<>>
    /\ warnings = {}
    /\ col_prod = None /\ col_loc = None /\ col_reg = None
    /\ df_top = <<>> /\ df_loc = <<>> /\ df_reg = <<>>

(***************************************************************************)
(* standardize_columns applied once and twice to a table whose column name *)
(* is drawn from every string of at most MaxNameLen characters over        *)
(* StdAlphabet.                                                            *)
(***************************************************************************)
StdAlphabet == {"a", "B", "1", "_", " ", "\t", "-", "!"}

SeqsUpTo(S, n) == UNION {[1..k -> S] : k \in 0..n}

StdInputs ==
    {[columns |-> <<n>>, dtypes |-> <<"object">>, rows |-> <<>>] :
        n \in SeqsUpTo(StdAlphabet, MaxNameLen)}

InitStd ==
    /\ pc = "std0"
    /\ error = ""
    /\ T0 \in StdInputs
    /\ T1 = EmptyDf /\ T2 = EmptyDf /\ rep1 = NoReport /\ rep2 = NoReport
    /\ BatchIdle /\ DashIdle

Standardize1 ==
    /\ pc = "std0"
    /\ T1' = standardize_columns(T0)
    /\ pc' = "std1"
    /\ UNCHANGED <<error, T0, T2, rep1, rep2, batchVars, dashVars>>

Standardize2 ==
    /\ pc = "std1"
    /\ T2' = standardize_columns(T1)
    /\ pc' = "std2"
    /\ UNCHANGED <<error, T0, T1, rep1, rep2, batchVars, dashVars>>

NextStd == Standardize1 \/ Standardize2

SpecStd == InitStd /\ [][NextStd]_vars

(***************************************************************************)
(* clean_table applied once and twice.  A column's dtype is part of the    *)
(* table: an object column holds text or missing values, a number column   *)
(* numbers or missing values.                                              *)
(***************************************************************************)
RawProducto == <<"P","r","o","d","u","c","t","o">>
RawTotalVenta == <<"T","o","t","a","l"," ","V","e","n","t","a">>
RawCliente == <<"C","l","i","e","n","t","e">>
RawCiudad == <<" ","C","i","u","d","a","d","-","O","r","i","g","e","n">>

CleanSchemas ==
    { [columns |-> <<RawCliente>>, dtypes |-> <<"object">>],
      [columns |-> <<RawTotalVenta>>, dtypes |-> <<"number">>],
      [columns |-> <<RawProducto, RawTotalVenta>>, dtypes |-> <<"object", "number">>],
      [columns |-> <<RawCliente, RawCiudad>>, dtypes |-> <<"object", "object">>] }

CellsOf(dtype) ==
    IF dtype = "object" THEN {NULL, Desconocido, Txt("A")}
    ELSE {NULL, Num(10), Num(20)}

RowsOf(dtypes) ==
    {row \in [1..Len(dtypes) -> UNION {CellsOf(d) : d \in Range(dtypes)}] :
        \A i \in 1..Len(dtypes) : row[i] \in CellsOf(dtypes[i])}

CleanInputs ==
    UNION {{[columns |-> s.columns, dtypes |-> s.dtypes, rows |-> rows] :
                rows \in SeqsUpTo(RowsOf(s.dtypes), MaxCleanRows)} : s \in CleanSchemas}

InitClean ==
    /\ pc = "clean0"
    /\ error = ""
    /\ T0 \in CleanInputs
    /\ T1 = EmptyDf /\ T2 = EmptyDf /\ rep1 = NoReport /\ rep2 = NoReport
    /\ BatchIdle /\ DashIdle

Clean1 ==
    /\ pc = "clean0"
    /\ T1' = clean_table(T0).df
    /\ rep1' = clean_table(T0).report
    /\ pc' = "clean1"
    /\ UNCHANGED <<error, T0, T2, rep2, batchVars, dashVars>>

Clean2 ==
    /\ pc = "clean1"
    /\ T2' = clean_table(T1).df
    /\ rep2' = clean_table(T1).report
    /\ pc' = "clean2"
    /\ UNCHANGED <<error, T0, T1, rep1, batchVars, dashVars>>

NextClean == Clean1 \/ Clean2

SpecClean == InitClean /\ [][NextClean]_vars

(***************************************************************************)
(* The upload loop (lines 56-75) and the concatenation of the 'ventas'     *)
(* bucket (lines 78-82).                                                   *)
(***************************************************************************)
ExtCsv == <<".","c","s","v">>
ExtJson == <<".","j","s","o","n">>
ExtJsonUpper == <<".","J","S","O","N">>
ExtXlsx == <<".","x","l","s","x">>
ExtXls == <<".","x","l","s">>
ExtTxt == <<".","t","x","t">>
RawFechaDeVenta == <<"F","e","c","h","a"," ","d","e"," ","V","e","n","t","a">>
RawMontoTotal == <<"M","o","n","t","o"," ","T","o","t","a","l">>
RawTags == <<"t","a","g","s">>

\* The files a batch is drawn from.  `readable` is whether pd.read_csv, pd.read_excel
\* or json.load accept the content; `table` is what they return when they do.
FileVentas1 ==
    [name |-> "ventas1", ext |-> ExtCsv, readable |-> TRUE,
     table |-> [columns |-> <<RawFechaDeVenta, RawMontoTotal>>,
                dtypes |-> <<"object", "number">>,
                rows |-> << <<Txt("2023-01-15"), Num(100)>>,
                            <<Txt("2023-01-15"), Num(100)>>,
                            <<Txt("2023-02-01"), Num(30)>> >>]]
FileVentas2 ==
    [name |-> "ventas2", ext |-> ExtCsv, readable |-> TRUE,
     table |-> [columns |-> <<RawMontoTotal, RawProducto>>,
                dtypes |-> <<"number", "object">>,
                rows |-> << <<Num(50), Txt("Pan")>>, <<NULL, NULL>> >>]]
FileTags ==
    [name |-> "tags", ext |-> ExtJson, readable |-> TRUE,
     table |-> [columns |-> <<RawMontoTotal, RawTags>>,
                dtypes |-> <<"number", "object">>,
                rows |-> << <<Num(10), Lst(1)>> >>]]
FileRoto ==
    [name |-> "roto", ext |-> ExtCsv, readable |-> FALSE, table |-> EmptyDf]
FileNotas ==
    [name |-> "notas", ext |-> ExtTxt, readable |-> TRUE, table |-> EmptyDf]
FileClientes ==
    [name |-> "clientes", ext |-> ExtJsonUpper, readable |-> TRUE,
     table |-> [columns |-> <<RawCliente>>, dtypes |-> <<"object">>,
                rows |-> << <<Txt("Ana")>>, <<NULL>> >>]]
FileVacio ==
    [name |-> "vacio", ext |-> ExtJson, readable |-> TRUE, table |-> EmptyDf]

Files == {FileVentas1, FileVentas2, FileTags, FileRoto, FileNotas, FileClientes, FileVacio}

Areas == {"ventas", "clientes", "productos", "otro"}

\* load_file (lines 11-22): the extension is lower-cased, then dispatched on
SupportedExt(file) == StrLower(file.ext) \in {ExtCsv, ExtXls, ExtXlsx, ExtJson}

LoadRaises(file) == ~SupportedExt(file) \/ ~file.readable

load_file(file) == file.table

\* pd.concat(dfs, ignore_index=True): outer join of the columns in order of first
\* appearance, the frames' rows in order, NaN where a frame lacks the column
RECURSIVE ConcatColumns(_)
ConcatColumns(dfs) ==
    IF dfs = <<>> THEN <<>>
    ELSE LET front == ConcatColumns(SubSeq(dfs, 1, Len(dfs) - 1))
             last == dfs[Len(dfs)].columns
         IN  front \o SelectSeq(last, LAMBDA c : c \notin Range(front))

RECURSIVE ConcatRows(_, _)
ConcatRows(dfs, cols) ==
    IF dfs = <<>> THEN <<>>
    ELSE LET df == Head(dfs)
         IN  [r \in 1..Len(df.rows) |->
                 [i \in 1..Len(cols) |->
                     IF HasCol(df, cols[i]) THEN Cell(df, r, cols[i]) ELSE NULL]]
             \o ConcatRows(Tail(dfs), cols)

ConcatDtype(dfs, c) ==
    IF \E k \in 1..Len(dfs) : HasCol(dfs[k], c) /\ ColDtype(dfs[k], c) = "object"
    THEN "object" ELSE "number"

ConcatInner(dfs) ==
    LET cols == SelectSeq(ConcatColumns(dfs), LAMBDA c : \A k \in 1..Len(dfs) : HasCol(dfs[k], c))
    IN  [columns |-> cols,
         dtypes |-> [i \in 1..Len(cols) |-> ConcatDtype(dfs, cols[i])],
         rows |-> ConcatRows(dfs, cols)]

pd_concat(dfs) ==
    LET cols == ConcatColumns(dfs)
    IN  [columns |-> cols,
         dtypes |-> [i \in 1..Len(cols) |-> ConcatDtype(dfs, cols[i])],
         rows |-> ConcatRows(dfs, cols)]

Bucket(area) == IF area \in DOMAIN datasets THEN datasets[area] ELSE <<>>

Init ==
    /\ pc = "upload"
    /\ error = ""
    /\ uploaded_files \in SeqsUpTo(Files, MaxFiles)
    /\ idx = 0
    /\ areas = [i \in 1..Len(uploaded_files) |-> "-"]
    /\ datasets = [a \in {} |-> <<>>]
    /\ df_ventas = EmptyDf
    /\ HarnessIdle /\ DashIdle

\* line 58: `if uploaded_files:`
StartBatch ==
    /\ pc = "upload"
    /\ pc' = IF uploaded_files = <<>> THEN "done" ELSE "loop"
    /\ UNCHANGED <<error, harnessVars, batchVars, dashVars>>

\* lines 62-67: load_file raises, st.error, continue
LoadFails ==
    /\ pc = "loop"
    /\ idx < Len(uploaded_files)
    /\ LoadRaises(uploaded_files[idx + 1])
    /\ idx' = idx + 1
    /\ UNCHANGED <<error, pc, harnessVars, uploaded_files, areas, datasets, df_ventas, dashVars>>

\* lines 62-75 for a file that loads and cleans
ProcessFile ==
    /\ pc = "loop"
    /\ idx < Len(uploaded_files)
    /\ ~LoadRaises(uploaded_files[idx + 1])
    /\ LET file == uploaded_files[idx + 1]
           df == load_file(file)
       IN  /\ ~Unhashable(standardize_columns(df))
           /\ \E area \in Areas :
                /\ areas' = [areas EXCEPT ![idx + 1] = area]
                /\ datasets' =
                      [a \in DOMAIN datasets \cup {area} |->
                          IF a = area
                          THEN Append(Bucket(area),
                                      [filename |-> file.name, df |-> clean_table(df).df])
                          ELSE datasets[a]]
    /\ idx' = idx + 1
    /\ UNCHANGED <<error, pc, harnessVars, uploaded_files, df_ventas, dashVars>>

\* line 70 outside any try: drop_duplicates raises and the script run ends
CleanRaises ==
    /\ pc = "loop"
    /\ idx < Len(uploaded_files)
    /\ ~LoadRaises(uploaded_files[idx + 1])
    /\ Unhashable(standardize_columns(load_file(uploaded_files[idx + 1])))
    /\ \E area \in Areas : areas' = [areas EXCEPT ![idx + 1] = area]
    /\ pc' = "crashed"
    /\ error' = "drop_duplicates: TypeError"
    /\ UNCHANGED <<harnessVars, uploaded_files, idx, datasets, df_ventas, dashVars>>

\* lines 78-82
Combine ==
    /\ pc = "loop"
    /\ idx = Len(uploaded_files)
    /\ IF "ventas" \in DOMAIN datasets
       THEN /\ df_ventas' = pd_concat([k \in 1..Len(datasets["ventas"]) |-> datasets["ventas"][k].df])
            /\ df_master' = df_ventas'
            /\ pc' = "dashboard"
       ELSE /\ pc' = "done"
            /\ UNCHANGED <<df_ventas, df_master>>
    /\ UNCHANGED <<error, harnessVars, uploaded_files, idx, areas, datasets, df_parsed,
                   col_monto, col_fecha, posibles_productos, posibles_locales,
                   posibles_regiones, anio_sel, productos_sel, locales_sel, regiones_sel,
                   ingreso_total, df_trend, warnings, col_prod, col_loc, col_reg,
                   df_top, df_loc, df_reg>>

Next == StartBatch \/ LoadFails \/ ProcessFile \/ CleanRaises \/ Combine

Spec == Init /\ [][Next]_vars

(***************************************************************************)
(* Column detection (lines 87-88, 100-102, 150-152).                       *)
(***************************************************************************)
KwVenta == <<"v","e","n","t","a">>
KwMonto == <<"m","o","n","t","o">>
KwTotal == <<"t","o","t","a","l">>
KwIngreso == <<"i","n","g","r","e","s","o">>
KwFecha == <<"f","e","c","h","a">>
KwDate == <<"d","a","t","e">>
KwProducto == <<"p","r","o","d","u","c","t","o">>
KwItem == <<"i","t","e","m">>
KwArticulo == <<"a","r","t","i","c","u","l","o">>
KwSku == <<"s","k","u">>
KwLocal == <<"l","o","c","a","l">>
KwTienda == <<"t","i","e","n","d","a">>
KwSucursal == <<"s","u","c","u","r","s","a","l">>
KwRegion == <<"r","e","g","i","o","n">>
KwCiudad == <<"c","i","u","d","a","d">>
KwZona == <<"z","o","n","a">>
KwPais == <<"p","a","i","s">>

KeysMonto == <<KwVenta, KwMonto, KwTotal, KwIngreso>>
KeysFecha == <<KwFecha, KwDate>>
KeysProducto == <<KwProducto, KwItem, KwArticulo, KwSku>>
KeysLocal == <<KwLocal, KwTienda, KwSucursal>>
KeysRegion == <<KwRegion, KwCiudad, KwZona, KwPais>>

\* Python's `k in c` for strings
StrContains(c, k) ==
    \E i \in 0..(Len(c) - Len(k)) : SubSeq(c, i + 1, i + Len(k)) = k

\* any(k in c for k in keys)
AnyKeyword(c, keys) == \E j \in 1..Len(keys) : StrContains(c, keys[j])

RECURSIVE LastMatch(_, _)
LastMatch(cols, keys) ==
    IF cols = <<>> THEN None
    ELSE IF AnyKeyword(cols[Len(cols)], keys) THEN cols[Len(cols)]
         ELSE LastMatch(SubSeq(cols, 1, Len(cols) - 1), keys)

\* next((c for c in columns if any(...)), None)
RECURSIVE FirstMatch(_, _)
FirstMatch(cols, keys) ==
    IF cols = <<>> THEN None
    ELSE IF AnyKeyword(Head(cols), keys) THEN Head(cols)
         ELSE FirstMatch(Tail(cols), keys)

\* [c for c in columns if any(...)]
Posibles(cols, keys) == SelectSeq(cols, LAMBDA c : AnyKeyword(c, keys))

(***************************************************************************)
(* Date coercion (lines 107-109).                                          *)
(***************************************************************************)
ColAnio == <<"a","ñ","o">>

\* The date texts of the model and the day pd.to_datetime reads from each.
DateTexts == {"2023-01-15", "2023-01-20", "2023-02-01", "2024-04-10"}

ParseDateText(s) ==
    CASE s = "2023-01-15" -> 20230115
      [] s = "2023-01-20" -> 20230120
      [] s = "2023-02-01" -> 20230201
      [] s = "2024-04-10" -> 20240410

\* pd.to_datetime(value, errors='coerce'): a number counts nanoseconds from the epoch
to_datetime(v) ==
    CASE Kind(v) = "txt" -> IF Val(v) \in DateTexts THEN Dt(ParseDateText(Val(v))) ELSE NULL
      [] Kind(v) = "num" -> Dt(19700101)
      [] Kind(v) = "dt" -> v
      [] OTHER -> NULL

Year(d) == Val(d) \div 10000
Month(d) == (Val(d) \div 100) % 100

\* df[c] = values: replaces the column, or appends it when it is new
SetCol(df, c, dtype, values) ==
    IF HasCol(df, c)
    THEN LET i == ColIndex(df, c)
         IN  [columns |-> df.columns,
              dtypes |-> [df.dtypes EXCEPT ![i] = dtype],
              rows |-> [r \in 1..Len(df.rows) |-> [df.rows[r] EXCEPT ![i] = values[r]]]]
    ELSE [columns |-> Append(df.columns, c),
          dtypes |-> Append(df.dtypes, dtype),
          rows |-> [r \in 1..Len(df.rows) |-> Append(df.rows[r], values[r])]]

\* df[mask]: the rows whose entry in the boolean mask is True, in order
WhereRows(df, mask) ==
    LET kept == SelectSeq([r \in 1..Len(df.rows) |-> r], LAMBDA r : mask[r])
    IN  [df EXCEPT !.rows = [k \in 1..Len(kept) |-> df.rows[kept[k]]]]

dropna_keep_all(df, c) == df

\* df.dropna(subset=[c])
dropna(df, c) == WhereRows(df, [r \in 1..Len(df.rows) |-> Cell(df, r, c) # NULL])

\* lines 107-109
ParseDates(df, c) ==
    LET coerced == SetCol(df, c, "datetime",
                          [r \in 1..Len(df.rows) |-> to_datetime(Cell(df, r, c))])
        kept == dropna(coerced, c)
    IN  SetCol(kept, ColAnio, "number",
               [r \in 1..Len(kept.rows) |->
                   IF Cell(kept, r, c) = NULL THEN NULL ELSE Num(Year(Cell(kept, r, c)))])

(***************************************************************************)
(* Segmentadores (lines 111-130).                                          *)
(***************************************************************************)
Todos == <<"Todos", 0>>
AnioOption(y) == <<"año", y>>

\* df[c].unique()
Unique(df, c) == {Cell(df, r, c) : r \in 1..Len(df.rows)}

\* sorted(values) raises TypeError when it compares a str with a float or an int
SortedRaises(values) ==
    /\ \E v \in values : Kind(v) = "txt"
    /\ \E v \in values : Kind(v) # "txt"

isin_negated(df, c, sel) == WhereRows(df, [r \in 1..Len(df.rows) |-> Cell(df, r, c) \notin sel])

\* df[df[c].isin(sel)]
isin(df, c, sel) == WhereRows(df, [r \in 1..Len(df.rows) |-> Cell(df, r, c) \in sel])

\* df[df['año'] == int(año_sel)]
YearEquals(df, sel) == WhereRows(df, [r \in 1..Len(df.rows) |-> Cell(df, r, ColAnio) = Num(sel[2])])

(***************************************************************************)
(* ingreso_total and df_trend (lines 135-144).                             *)
(***************************************************************************)
RECURSIVE SumCells(_)
SumCells(cells) ==
    IF cells = <<>> THEN 0
    ELSE (IF Kind(Head(cells)) = "num" THEN Val(Head(cells)) ELSE 0) + SumCells(Tail(cells))

\* Series.sum(): missing values are skipped
ColumnSum(df, c) == SumCells([r \in 1..Len(df.rows) |-> Cell(df, r, c)])

\* Series.sum() of datetimes raises TypeError; the sum of texts is no number and
\* f"{x:,.0f}" raises ValueError (or the sum itself raises on text + 0)
SumOrFormatRaises(df, c) ==
    \/ ColDtype(df, c) = "datetime"
    \/ \E r \in 1..Len(df.rows) : Kind(Cell(df, r, c)) \in {"txt", "dt"}

MonthIndex(d) == Year(d) * 12 + (Month(d) - 1)
MonthLabel(m) == (m \div 12) * 100 + (m % 12) + 1

BucketFirst(df, cf, cm, m) ==
    LET rs == SelectSeq([r \in 1..Len(df.rows) |-> r],
                        LAMBDA r : MonthIndex(Cell(df, r, cf)) = m)
    IN  IF rs = <<>> THEN 0
        ELSE IF Kind(Cell(df, rs[1], cm)) = "num" THEN Val(Cell(df, rs[1], cm)) ELSE 0

\* the sum of one month's bin
BucketSum(df, cf, cm, m) ==
    LET rs == SelectSeq([r \in 1..Len(df.rows) |-> r],
                        LAMBDA r : MonthIndex(Cell(df, r, cf)) = m)
    IN  SumCells([k \in 1..Len(rs) |-> Cell(df, rs[k], cm)])

\* df.set_index(cf).resample('M')[cm].sum().reset_index(): one bin per calendar
\* month from the earliest to the latest date, empty months included
Resample(df, cf, cm) ==
    IF df.rows = <<>> THEN <<>>
    ELSE LET ms == {MonthIndex(Cell(df, r, cf)) : r \in 1..Len(df.rows)}
             lo == CHOOSE m \in ms : \A n \in ms : m <= n
             hi == CHOOSE m \in ms : \A n \in ms : m >= n
         IN  [k \in 1..(hi - lo + 1) |->
                 <<MonthLabel(lo + k - 1), BucketSum(df, cf, cm, lo + k - 1)>>]

(***************************************************************************)
(* df_top, df_loc, df_reg (lines 154-173).                                 *)
(***************************************************************************)
TopN == 10

\* groupby(ck)[cm].sum().reset_index(): one entry per key, missing keys dropped
GroupSums(df, ck, cm) ==
    {<<key, SumCells(SelectSeq([r \in 1..Len(df.rows) |->
                                  IF Cell(df, r, ck) = key THEN Cell(df, r, cm) ELSE NULL],
                               LAMBDA v : TRUE))>> :
        key \in Unique(df, ck) \ {NULL}}

\* sort_values(cm, ascending=False): the order of equal totals is the sort's choice
RECURSIVE DescOrders(_)
DescOrders(entries) ==
    IF entries = {} THEN {<<>>}
    ELSE UNION {{<<e>> \o rest : rest \in DescOrders(entries \ {e})} :
                   e \in {e \in entries : \A f \in entries : e[2] >= f[2]}}

DfHeadAll(seq, n) == seq

\* .head(n)
DfHead(seq, n) == SubSeq(seq, 1, IF Len(seq) < n THEN Len(seq) ELSE n)

\* reset_index() raises ValueError when the group column is the summed column
GroupByRaises(ck, cm) == ck = cm

(***************************************************************************)
(* The dashboard (lines 84-173) on a fact table.                           *)
(***************************************************************************)
\* lines 87-88
Detectar ==
    /\ pc = "dashboard"
    /\ col_monto' = FirstMatch(df_master.columns, KeysMonto)
    /\ col_fecha' = FirstMatch(df_master.columns, KeysFecha)
    /\ pc' = "fallback"
    /\ UNCHANGED <<error, harnessVars, batchVars, df_master, df_parsed,
                   posibles_productos, posibles_locales, posibles_regiones,
                   anio_sel, productos_sel, locales_sel, regiones_sel,
                   ingreso_total, df_trend, warnings, col_prod, col_loc, col_reg,
                   df_top, df_loc, df_reg>>

\* st.selectbox(label, df_master.columns): None when there is no column
SelectboxChoices(cols) == IF cols = <<>> THEN {None} ELSE Range(cols)

\* lines 90-93, and the test of line 98
Fallback ==
    /\ pc = "fallback"
    /\ IF col_monto = None
       THEN col_monto' \in SelectboxChoices(df_master.columns)
       ELSE col_monto' = col_monto
    /\ IF col_fecha = None
       THEN col_fecha' \in SelectboxChoices(df_master.columns)
       ELSE col_fecha' = col_fecha
    /\ pc' = IF col_monto' # None /\ col_fecha' # None THEN "segment" ELSE "metrics"
    /\ UNCHANGED <<error, harnessVars, batchVars, df_master, df_parsed,
                   posibles_productos, posibles_locales, posibles_regiones,
                   anio_sel, productos_sel, locales_sel, regiones_sel,
                   ingreso_total, df_trend, warnings, col_prod, col_loc, col_reg,
                   df_top, df_loc, df_reg>>

\* lines 100-109
Segmentar ==
    /\ pc = "segment"
    /\ posibles_productos' = Posibles(df_master.columns, KeysProducto)
    /\ posibles_locales' = Posibles(df_master.columns, KeysLocal)
    /\ posibles_regiones' = Posibles(df_master.columns, KeysRegion)
    /\ df_master' = ParseDates(df_master, col_fecha)
    /\ df_parsed' = df_master'
    /\ pc' = "anio"
    /\ UNCHANGED <<error, harnessVars, batchVars, col_monto, col_fecha,
                   anio_sel, productos_sel, locales_sel, regiones_sel,
                   ingreso_total, df_trend, warnings, col_prod, col_loc, col_reg,
                   df_top, df_loc, df_reg>>

\* lines 111-114
FiltrarAnio ==
    /\ pc = "anio"
    /\ \E sel \in {Todos} \cup {AnioOption(Val(v)) : v \in Unique(df_master, ColAnio) \ {NULL}} :
          /\ anio_sel' = sel
          /\ df_master' = IF sel # Todos THEN YearEquals(df_master, sel) ELSE df_master
    /\ pc' = "productos"
    /\ UNCHANGED <<error, harnessVars, batchVars, df_parsed, col_monto, col_fecha,
                   posibles_productos, posibles_locales, posibles_regiones,
                   productos_sel, locales_sel, regiones_sel,
                   ingreso_total, df_trend, warnings, col_prod, col_loc, col_reg,
                   df_top, df_loc, df_reg>>

\* lines 117-120
FiltrarProductos ==
    /\ pc = "productos"
    /\ IF posibles_productos = <<>>
       THEN /\ pc' = "locales"
            /\ UNCHANGED <<error, productos_sel, df_master>>
       ELSE IF SortedRaises(Unique(df_master, posibles_productos[1]))
       THEN /\ pc' = "crashed"
            /\ error' = "sorted: TypeError"
            /\ UNCHANGED <<productos_sel, df_master>>
       ELSE \E sel \in SUBSET Unique(df_master, posibles_productos[1]) :
               /\ productos_sel' = sel
               /\ df_master' = IF sel # {} THEN isin(df_master, posibles_productos[1], sel)
                                ELSE df_master
               /\ pc' = "locales"
               /\ UNCHANGED error
    /\ UNCHANGED <<harnessVars, batchVars, df_parsed, col_monto, col_fecha,
                   posibles_productos, posibles_locales, posibles_regiones,
                   anio_sel, locales_sel, regiones_sel,
                   ingreso_total, df_trend, warnings, col_prod, col_loc, col_reg,
                   df_top, df_loc, df_reg>>

\* lines 122-125
FiltrarLocales ==
    /\ pc = "locales"
    /\ IF posibles_locales = <<>>
       THEN /\ pc' = "regiones"
            /\ UNCHANGED <<error, locales_sel, df_master>>
       ELSE IF SortedRaises(Unique(df_master, posibles_locales[1]))
       THEN /\ pc' = "crashed"
            /\ error' = "sorted: TypeError"
            /\ UNCHANGED <<locales_sel, df_master>>
       ELSE \E sel \in SUBSET Unique(df_master, posibles_locales[1]) :
               /\ locales_sel' = sel
               /\ df_master' = IF sel # {} THEN isin(df_master, posibles_locales[1], sel)
                                ELSE df_master
               /\ pc' = "regiones"
               /\ UNCHANGED error
    /\ UNCHANGED <<harnessVars, batchVars, df_parsed, col_monto, col_fecha,
                   posibles_productos, posibles_locales, posibles_regiones,
                   anio_sel, productos_sel, regiones_sel,
                   ingreso_total, df_trend, warnings, col_prod, col_loc, col_reg,
                   df_top, df_loc, df_reg>>

\* lines 127-130
FiltrarRegiones ==
    /\ pc = "regiones"
    /\ IF posibles_regiones = <<>>
       THEN /\ pc' = "metrics"
            /\ UNCHANGED <<error, regiones_sel, df_master>>
       ELSE IF SortedRaises(Unique(df_master, posibles_regiones[1]))
       THEN /\ pc' = "crashed"
            /\ error' = "sorted: TypeError"
            /\ UNCHANGED <<regiones_sel, df_master>>
       ELSE \E sel \in SUBSET Unique(df_master, posibles_regiones[1]) :
               /\ regiones_sel' = sel
               /\ df_master' = IF sel # {} THEN isin(df_master, posibles_regiones[1], sel)
                                ELSE df_master
               /\ pc' = "metrics"
               /\ UNCHANGED error
    /\ UNCHANGED <<harnessVars, batchVars, df_parsed, col_monto, col_fecha,
                   posibles_productos, posibles_locales, posibles_regiones,
                   anio_sel, productos_sel, locales_sel,
                   ingreso_total, df_trend, warnings, col_prod, col_loc, col_reg,
                   df_top, df_loc, df_reg>>

\* lines 135-146
Metricas ==
    /\ pc = "metrics"
    /\ IF col_monto # None /\ col_fecha # None
       THEN IF SumOrFormatRaises(df_master, col_monto)
            THEN /\ pc' = "crashed"
                 /\ error' = "sum or format: TypeError or ValueError"
                 /\ UNCHANGED <<ingreso_total, df_trend, warnings>>
            ELSE /\ ingreso_total' = ColumnSum(df_master, col_monto)
                 /\ df_trend' = Resample(df_master, col_fecha, col_monto)
                 /\ pc' = "analisis"
                 /\ UNCHANGED <<error, warnings>>
       ELSE /\ warnings' = warnings \cup {"columnas"}
            /\ pc' = "analisis"
            /\ UNCHANGED <<error, ingreso_total, df_trend>>
    /\ UNCHANGED <<harnessVars, batchVars, df_master, df_parsed, col_monto, col_fecha,
                   posibles_productos, posibles_locales, posibles_regiones,
                   anio_sel, productos_sel, locales_sel, regiones_sel,
                   col_prod, col_loc, col_reg, df_top, df_loc, df_reg>>

\* lines 150-159
AnalisisProductos ==
    /\ pc = "analisis"
    /\ posibles_productos' = Posibles(df_master.columns, KeysProducto)
    /\ posibles_locales' = Posibles(df_master.columns, KeysLocal)
    /\ posibles_regiones' = Posibles(df_master.columns, KeysRegion)
    /\ IF posibles_productos' # <<>> /\ col_monto # None
       THEN /\ col_prod' = posibles_productos'[1]
            /\ IF GroupByRaises(col_prod', col_monto)
               THEN /\ pc' = "crashed"
                    /\ error' = "reset_index: ValueError"
                    /\ UNCHANGED df_top
               ELSE /\ \E sorted \in DescOrders(GroupSums(df_master, col_prod', col_monto)) :
                         df_top' = DfHead(sorted, TopN)
                    /\ pc' = "analisis_loc"
                    /\ UNCHANGED error
       ELSE /\ pc' = "analisis_loc"
            /\ UNCHANGED <<error, col_prod, df_top>>
    /\ UNCHANGED <<harnessVars, batchVars, df_master, df_parsed, col_monto, col_fecha,
                   anio_sel, productos_sel, locales_sel, regiones_sel,
                   ingreso_total, df_trend, warnings, col_loc, col_reg, df_loc, df_reg>>

\* lines 161-166
AnalisisLocales ==
    /\ pc = "analisis_loc"
    /\ IF posibles_locales # <<>> /\ col_monto # None
       THEN /\ col_loc' = posibles_locales[1]
            /\ IF GroupByRaises(col_loc', col_monto)
               THEN /\ pc' = "crashed"
                    /\ error' = "reset_index: ValueError"
                    /\ UNCHANGED df_loc
               ELSE /\ \E sorted \in DescOrders(GroupSums(df_master, col_loc', col_monto)) :
                         df_loc' = DfHead(sorted, TopN)
                    /\ pc' = "analisis_reg"
                    /\ UNCHANGED error
       ELSE /\ pc' = "analisis_reg"
            /\ UNCHANGED <<error, col_loc, df_loc>>
    /\ UNCHANGED <<harnessVars, batchVars, df_master, df_parsed, col_monto, col_fecha,
                   posibles_productos, posibles_locales, posibles_regiones,
                   anio_sel, productos_sel, locales_sel, regiones_sel,
                   ingreso_total, df_trend, warnings, col_prod, col_reg, df_top, df_reg>>

\* lines 168-173
AnalisisRegiones ==
    /\ pc = "analisis_reg"
    /\ IF posibles_regiones # <<>> /\ col_monto # None
       THEN /\ col_reg' = posibles_regiones[1]
            /\ IF GroupByRaises(col_reg', col_monto)
               THEN /\ pc' = "crashed"
                    /\ error' = "reset_index: ValueError"
                    /\ UNCHANGED df_reg
               ELSE /\ df_reg' \in DescOrders(GroupSums(df_master, col_reg', col_monto))
                    /\ pc' = "done"
                    /\ UNCHANGED error
       ELSE /\ pc' = "done"
            /\ UNCHANGED <<error, col_reg, df_reg>>
    /\ UNCHANGED <<harnessVars, batchVars, df_master, df_parsed, col_monto, col_fecha,
                   posibles_productos, posibles_locales, posibles_regiones,
                   anio_sel, productos_sel, locales_sel, regiones_sel,
                   ingreso_total, df_trend, warnings, col_prod, col_loc, df_top, df_loc>>

NextDash ==
    \/ Detectar \/ Fallback \/ Segmentar
    \/ FiltrarAnio \/ FiltrarProductos \/ FiltrarLocales \/ FiltrarRegiones
    \/ Metricas
    \/ AnalisisProductos \/ AnalisisLocales \/ AnalisisRegiones

(***************************************************************************)
(* The fact tables the dashboard is run on: a schema of canonical column   *)
(* names, and at most MaxRows rows drawn from five records.                *)
(***************************************************************************)
ColFechaDeVenta == <<"f","e","c","h","a","_","d","e","_","v","e","n","t","a">>
ColMontoTotal == <<"m","o","n","t","o","_","t","o","t","a","l">>
ColFecha == <<"f","e","c","h","a">>
ColMonto == <<"m","o","n","t","o">>
ColProducto == <<"p","r","o","d","u","c","t","o">>
ColSku == <<"s","k","u">>
ColTienda == <<"t","i","e","n","d","a">>
ColRegion == <<"r","e","g","i","o","n">>
ColCiudad == <<"c","i","u","d","a","d">>
ColRegionVenta == <<"r","e","g","i","o","n","_","v","e","n","t","a">>
ColTotalItems == <<"t","o","t","a","l","_","i","t","e","m","s">>
ColNota == <<"n","o","t","a">>
ColVentaLocal == <<"v","e","n","t","a","_","l","o","c","a","l">>

Schemas ==
    { <<ColFechaDeVenta, ColMontoTotal>>,
      <<ColMontoTotal, ColFechaDeVenta>>,
      <<ColFecha, ColMonto, ColProducto, ColTienda, ColRegion>>,
      <<ColFecha, ColMonto, ColSku, ColProducto, ColCiudad, ColRegion>>,
      <<ColSku, ColMonto, ColFecha, ColTienda>>,
      <<ColTienda, ColMonto, ColFecha>>,
      <<ColNota, ColCiudad>>,
      <<ColMonto, ColNota>>,
      <<ColFecha, ColTotalItems, ColMonto>>,
      <<ColRegionVenta, ColMonto, ColFecha>>,
      <<ColMonto, ColFecha, ColRegionVenta>>,
      <<ColMonto, ColFecha, ColRegion>>,
      <<ColFecha, ColVentaLocal>>,
      <<>> }

SchemaDtype(c) ==
    IF c \in {ColMontoTotal, ColMonto, ColSku, ColTotalItems, ColVentaLocal}
    THEN "number" ELSE "object"

\* record k's value in column c
RecordCell(k, c) ==
    CASE c \in {ColFechaDeVenta, ColFecha} ->
            <<Txt("2023-01-15"), Txt("2023-01-20"), Txt("2023-02-01"), Txt("N/A"), Txt("2024-04-10")>>[k]
      [] c \in {ColMontoTotal, ColMonto, ColVentaLocal} ->
            <<Num(100), Num(50), Num(30), Num(7), NULL>>[k]
      [] c = ColProducto -> <<Txt("Pan"), Txt("Cafe"), Txt("Pan"), Txt("Cafe"), NULL>>[k]
      [] c = ColSku -> <<Num(1), Num(2), Num(1), NULL, Num(2)>>[k]
      [] c = ColTienda -> <<Txt("Plaza"), Txt("Plaza"), Txt("Mall"), Txt("Mall"), NULL>>[k]
      [] c = ColRegion -> <<Txt("Norte"), Txt("Norte"), Txt("Sur"), Txt("Sur"), NULL>>[k]
      [] c = ColRegionVenta ->
            <<Txt("Norte"), Txt("Norte"), Txt("Sur"), Txt("Sur"), Txt("Norte")>>[k]
      [] c = ColCiudad -> <<Txt("Lima"), Txt("Cusco"), Txt("Lima"), Txt("Desconocido"), Txt("Cusco")>>[k]
      [] c = ColTotalItems -> <<Num(2), Num(1), Num(3), Num(1), NULL>>[k]
      [] OTHER -> <<Txt("a"), Txt("b"), Txt("a"), Txt("Desconocido"), Txt("b")>>[k]

RecordIds == 1..5

FactTable(schema, ks) ==
    [columns |-> schema,
     dtypes |-> [i \in 1..Len(schema) |-> SchemaDtype(schema[i])],
     rows |-> [r \in 1..Len(ks) |-> [i \in 1..Len(schema) |-> RecordCell(ks[r], schema[i])]]]

FactTables ==
    {FactTable(schema, ks) : schema \in Schemas, ks \in SeqsUpTo(RecordIds, MaxRows)}

InitDash ==
    /\ pc = "dashboard"
    /\ error = ""
    /\ df_ventas \in FactTables
    /\ df_master = df_ventas
    /\ uploaded_files = <<>> /\ idx = 0 /\ areas = <<>> /\ datasets = [a \in {} |-> <<>>]
    /\ df_parsed = EmptyDf
    /\ col_monto = None /\ col_fecha = None
    /\ posibles_productos = <<>> /\ posibles_locales = <<>> /\ posibles_regiones = <<>>
    /\ anio_sel = Todos
    /\ productos_sel = {} /\ locales_sel = {} /\ regiones_sel = {}
    /\ ingreso_total = 0
    /\ df_trend = <<>>
    /\ warnings = {}
    /\ col_prod = None /\ col_loc = None /\ col_reg = None
    /\ df_top = <<>> /\ df_loc = <<>> /\ df_reg = <<>>
    /\ HarnessIdle

SpecDash == InitDash /\ [][NextDash]_vars

(***************************************************************************)
(* The aggregations on larger tables: up to MaxAggRows rows over the       *)
(* columns fecha, monto, sku, tienda, ciudad.  Row i of table (n, m, p)    *)
(* has key number ((i-1) mod m) + 1 in the three group columns and the     *)
(* amount of pattern p.  The run starts where line 149 is reached with     *)
(* "Todos" and no selection made.                                          *)
(***************************************************************************)
KeyNames == <<"k01", "k02", "k03", "k04", "k05", "k06", "k07",
              "k08", "k09", "k10", "k11", "k12", "k13", "k14">>

AggPatterns == 1..5

AggAmount(p, n, i) ==
    CASE p = 1 -> Num(i)
      [] p = 2 -> Num(n + 1 - i)
      [] p = 3 -> Num(IF i = 2 THEN 1 ELSE i)
      [] p = 4 -> IF i = 3 THEN NULL ELSE Num(i - 4)
      [] OTHER -> Num(IF i <= 2 THEN 5 ELSE 5 + i)

AggKey(m, i) == ((i - 1) % m) + 1

AggTable(n, m, p) ==
    [columns |-> <<ColFecha, ColMonto, ColSku, ColTienda, ColCiudad>>,
     dtypes |-> <<"object", "number", "number", "object", "object">>,
     rows |-> [i \in 1..n |->
                  <<Txt("2023-01-15"),
                    AggAmount(p, n, i),
                    IF p = 4 /\ i % 5 = 0 THEN NULL ELSE Num(AggKey(m, i)),
                    Txt(KeyNames[AggKey(m, i)]),
                    Txt(KeyNames[AggKey(m, n + 1 - i)])>>]]

AggTables ==
    {AggTable(n, m, p) : n \in 0..MaxAggRows, m \in 1..MaxAggRows, p \in AggPatterns}

InitAgg ==
    /\ pc = "analisis"
    /\ error = ""
    /\ df_ventas \in AggTables
    /\ col_monto = FirstMatch(df_ventas.columns, KeysMonto)
    /\ col_fecha = FirstMatch(df_ventas.columns, KeysFecha)
    /\ posibles_productos = Posibles(df_ventas.columns, KeysProducto)
    /\ posibles_locales = Posibles(df_ventas.columns, KeysLocal)
    /\ posibles_regiones = Posibles(df_ventas.columns, KeysRegion)
    /\ df_parsed = ParseDates(df_ventas, col_fecha)
    /\ df_master = df_parsed
    /\ anio_sel = Todos
    /\ productos_sel = {} /\ locales_sel = {} /\ regiones_sel = {}
    /\ ingreso_total = ColumnSum(df_master, col_monto)
    /\ df_trend = Resample(df_master, col_fecha, col_monto)
    /\ warnings = {}
    /\ col_prod = None /\ col_loc = None /\ col_reg = None
    /\ df_top = <<>> /\ df_loc = <<>> /\ df_reg = <<>>
    /\ uploaded_files = <<>> /\ idx = 0 /\ areas = <<>> /\ datasets = [a \in {} |-> <<>>]
    /\ HarnessIdle

NextAgg == AnalisisProductos \/ AnalisisLocales \/ AnalisisRegiones

SpecAgg == InitAgg /\ [][NextAgg]_vars

(***************************************************************************)
(* C4: standardize_columns is idempotent, and a standardized name holds    *)
(* only lower-case letters, digits and underscores.                        *)
(***************************************************************************)
Canonical(name) == \A i \in 1..Len(name) : name[i] \in Range(LowerSeq) \cup Digits \cup {"_"}

C4_StandardizeIdempotent ==
    pc = "std2" =>
        /\ T2.columns = T1.columns
        /\ \A i \in 1..Len(T1.columns) : Canonical(T1.columns[i])

C4_Witness ==
    /\ pc = "std2"
    /\ T0.columns = << <<" ", "B", "-">> >>
    /\ T1.columns = << <<"b", "_">> >>

(***************************************************************************)
(* C3: clean_table reports rows_after <= rows_before with deduplicated =   *)
(* rows_before - rows_after, and cleaning the cleaned table again reports  *)
(* deduplicated = 0.                                                       *)
(***************************************************************************)
C3_RecleanDedupZero ==
    pc = "clean2" =>
        /\ rep1.rows_after <= rep1.rows_before
        /\ rep1.deduplicated = rep1.rows_before - rep1.rows_after
        /\ rep2.deduplicated = 0

(***************************************************************************)
(* C1: an error raised while one file is processed (in load_file or in a   *)
(* later per-file step such as clean_table) aborts only that file: the     *)
(* run does not end, the failing file is in no bucket, and every other     *)
(* file is cleaned and appended to the bucket of its area.                 *)
(***************************************************************************)
FileFails(file) == LoadRaises(file) \/ Unhashable(standardize_columns(load_file(file)))

RECURSIVE ExpectedBucket(_, _)
ExpectedBucket(area, n) ==
    IF n = 0 THEN <<>>
    ELSE LET file == uploaded_files[n]
         IN  IF ~FileFails(file) /\ areas[n] = area
             THEN Append(ExpectedBucket(area, n - 1),
                         [filename |-> file.name, df |-> clean_table(load_file(file)).df])
             ELSE ExpectedBucket(area, n - 1)

C1_PerFileErrorIsolated ==
    /\ pc # "crashed"
    /\ pc \in {"dashboard", "done"} =>
          \A area \in Areas : Bucket(area) = ExpectedBucket(area, Len(uploaded_files))

(***************************************************************************)
(* C9: the fact table is the row-wise concatenation of exactly the cleaned *)
(* tables assigned to 'ventas', in upload order and then row order; its    *)
(* columns are the union of those tables' columns, and a cell whose column *)
(* the row's source table lacks is null.                                   *)
(***************************************************************************)
VentasFrames ==
    LET b == ExpectedBucket("ventas", Len(uploaded_files))
    IN  [k \in 1..Len(b) |-> b[k].df]

RECURSIVE RowsBefore(_, _)
RowsBefore(frames, k) ==
    IF k = 1 THEN 0 ELSE RowsBefore(frames, k - 1) + Len(frames[k - 1].rows)

C9_FactTableIsConcat ==
    pc = "dashboard" =>
        LET frames == VentasFrames
            cols == df_ventas.columns
        IN  /\ Range(cols) = UNION {Range(frames[k].columns) : k \in 1..Len(frames)}
            /\ \A i, j \in 1..Len(cols) : cols[i] = cols[j] => i = j
            /\ Len(df_ventas.rows) = RowsBefore(frames, Len(frames) + 1)
            /\ \A k \in 1..Len(frames) : \A r \in 1..Len(frames[k].rows) :
                  \A j \in 1..Len(cols) :
                      df_ventas.rows[RowsBefore(frames, k) + r][j] =
                          IF HasCol(frames[k], cols[j])
                          THEN Cell(frames[k], r, cols[j]) ELSE NULL

C9_Witness ==
    /\ pc = "dashboard"
    /\ uploaded_files = <<FileClientes, FileVentas1, FileVentas2>>
    /\ areas = <<"clientes", "ventas", "ventas">>
    /\ Len(df_ventas.columns) = 3
    /\ Len(df_ventas.rows) = 4
    /\ df_ventas.rows[1][3] = NULL
    /\ df_ventas.rows[3] = <<NULL, Num(50), Txt("Pan")>>

(***************************************************************************)
(* C2: for the sales table with columns fecha_de_venta, monto_total and    *)
(* rows [2023-01-15,100], [2023-01-20,50], [2023-02-01,30] the date column *)
(* is fecha_de_venta, the amount column is monto_total and the monthly     *)
(* series is [(2023-01, 150), (2023-02, 30)].                              *)
(***************************************************************************)
ScenarioVentas == FactTable(<<ColFechaDeVenta, ColMontoTotal>>, <<1, 2, 3>>)

AfterMetricas == {"analisis", "analisis_loc", "analisis_reg", "done"}

C2_ScenarioRolesAndTrend ==
    df_ventas = ScenarioVentas =>
        /\ pc # "crashed"
        /\ pc # "dashboard" => col_fecha = ColFechaDeVenta /\ col_monto = ColMontoTotal
        /\ pc \in AfterMetricas => df_trend = << <<202301, 150>>, <<202302, 30>> >>

(***************************************************************************)
(* C5: the column of a role is the first column, in column order, whose    *)
(* name contains one of the role's keywords, and none when no name does;   *)
(* for product, location and region that first column alone is the one     *)
(* the filter offers and applies and the one the aggregation groups by.    *)
(***************************************************************************)
FirstInOrder(cols, keys) ==
    IF \E i \in 1..Len(cols) : AnyKeyword(cols[i], keys)
    THEN cols[CHOOSE i \in 1..Len(cols) :
                  /\ AnyKeyword(cols[i], keys)
                  /\ \A j \in 1..(i - 1) : ~AnyKeyword(cols[j], keys)]
    ELSE None

AfterSegmentar ==
    {"anio", "productos", "locales", "regiones", "metrics"} \cup AfterMetricas

\* the filter of a role offered values of column c only and kept rows by column c only
FilterUses(c, sel) ==
    IF c = None THEN sel = {}
    ELSE /\ sel \subseteq Unique(df_parsed, c)
         /\ sel # {} => \A r \in 1..Len(df_master.rows) : Cell(df_master, r, c) \in sel

\* the aggregation of a role grouped by column c
AggregationUses(c, used, result) ==
    /\ used = c
    /\ c # None => \A k \in 1..Len(result) : result[k][1] \in Unique(df_master, c)

C5_FirstMatchPerRole ==
    LET cols == df_ventas.columns
        cp == FirstInOrder(cols, KeysProducto)
        cl == FirstInOrder(cols, KeysLocal)
        cr == FirstInOrder(cols, KeysRegion)
    IN  /\ pc = "fallback" =>
              /\ col_monto = FirstInOrder(cols, KeysMonto)
              /\ col_fecha = FirstInOrder(cols, KeysFecha)
        /\ (pc \in AfterSegmentar /\ col_monto # None /\ col_fecha # None) =>
              /\ FilterUses(cp, productos_sel)
              /\ FilterUses(cl, locales_sel)
              /\ FilterUses(cr, regiones_sel)
        /\ (pc \in {"analisis_loc", "analisis_reg", "done"} /\ col_monto # None) =>
              AggregationUses(cp, col_prod, df_top)
        /\ (pc \in {"analisis_reg", "done"} /\ col_monto # None) =>
              AggregationUses(cl, col_loc, df_loc)
        /\ (pc = "done" /\ col_monto # None) =>
              AggregationUses(cr, col_reg, df_reg)

C5_Witness ==
    /\ pc = "done"
    /\ df_ventas.columns = <<ColFecha, ColMonto, ColSku, ColProducto, ColCiudad, ColRegion>>
    /\ col_prod = ColSku /\ col_reg = ColCiudad /\ col_loc = None
    /\ productos_sel = {Num(1)} /\ regiones_sel = {Txt("Lima")}
    /\ Len(df_top) = 1 /\ Len(df_reg) = 1
    /\ \E r \in 1..Len(df_parsed.rows) : Cell(df_parsed, r, ColProducto) = Txt("Cafe")

(***************************************************************************)
(* C6: the working subset is exactly the rows of the post-date-parse fact  *)
(* table that satisfy every active filter, in row order; a filter whose    *)
(* role column is absent is skipped; with no filter set it is the whole    *)
(* post-date-parse table.                                                  *)
(***************************************************************************)
RowPasses(row, c, sel) ==
    (c # None /\ sel # {}) => row[ColIndex(df_parsed, c)] \in sel

C6_FilterConjunction ==
    (pc \in AfterSegmentar /\ col_monto # None /\ col_fecha # None) =>
        LET cols == df_ventas.columns
            cp == FirstInOrder(cols, KeysProducto)
            cl == FirstInOrder(cols, KeysLocal)
            cr == FirstInOrder(cols, KeysRegion)
            Sat(row) ==
                /\ anio_sel # Todos => row[ColIndex(df_parsed, ColAnio)] = Num(anio_sel[2])
                /\ RowPasses(row, cp, productos_sel)
                /\ RowPasses(row, cl, locales_sel)
                /\ RowPasses(row, cr, regiones_sel)
        IN  /\ df_master.columns = df_parsed.columns
            /\ df_master.rows = SelectSeq(df_parsed.rows, Sat)
            /\ (cp = None => productos_sel = {})
            /\ (cl = None => locales_sel = {})
            /\ (cr = None => regiones_sel = {})
            /\ (anio_sel = Todos /\ productos_sel = {} /\ locales_sel = {} /\ regiones_sel = {})
                  => df_master = df_parsed

C6_Witness ==
    /\ pc = "metrics"
    /\ anio_sel = AnioOption(2023)
    /\ productos_sel = {Txt("Pan")} /\ locales_sel = {Txt("Plaza")} /\ regiones_sel = {Txt("Norte")}
    /\ Len(df_parsed.rows) = 3
    /\ Len(df_master.rows) = 1

C6_WitnessEmptyFilter ==
    /\ pc = "metrics"
    /\ anio_sel = Todos /\ productos_sel = {} /\ locales_sel = {} /\ regiones_sel = {}
    /\ posibles_productos # <<>> /\ posibles_regiones = <<>>
    /\ Len(df_master.rows) = 2

(***************************************************************************)
(* C7: after the date coercion every row of the working table has a parsed *)
(* date and a year equal to that date's year; a row whose date does not    *)
(* parse is removed, a row whose date parses is kept.                      *)
(***************************************************************************)
Parses(v) == Kind(v) = "num" \/ (Kind(v) = "txt" /\ Val(v) \in DateTexts)

HasParsedDate(df, r) ==
    /\ Kind(Cell(df, r, col_fecha)) = "dt"
    /\ Cell(df, r, ColAnio) = Num(Val(Cell(df, r, col_fecha)) \div 10000)

C7_UnparseableRowsDropped ==
    (pc \in AfterSegmentar /\ col_monto # None /\ col_fecha # None) =>
        LET kept == SelectSeq([r \in 1..Len(df_ventas.rows) |-> r],
                              LAMBDA r : Parses(Cell(df_ventas, r, col_fecha)))
        IN  /\ Len(df_parsed.rows) = Len(kept)
            /\ \A k \in 1..Len(kept) :
                  /\ HasParsedDate(df_parsed, k)
                  /\ \A i \in 1..Len(df_ventas.columns) :
                        df_ventas.columns[i] # col_fecha =>
                            df_parsed.rows[k][i] = df_ventas.rows[kept[k]][i]
            /\ \A r \in 1..Len(df_master.rows) : HasParsedDate(df_master, r)

C7_Witness ==
    /\ pc = "anio"
    /\ col_fecha = ColFecha
    /\ Len(df_ventas.rows) = 3
    /\ Cell(df_ventas, 2, ColFecha) = Txt("N/A")
    /\ Len(df_parsed.rows) = 2
    /\ Cell(df_parsed, 2, ColFecha) = Dt(20240410)
    /\ Cell(df_parsed, 2, ColAnio) = Num(2024)

(***************************************************************************)
(* C8: the monthly series has its buckets in increasing time order, and    *)
(* the sum of the bucket totals equals the sum of the amount column over   *)
(* the filtered rows (ingreso_total), a null amount counting as zero.      *)
(***************************************************************************)
RECURSIVE SumTotals(_)
SumTotals(series) ==
    IF series = <<>> THEN 0 ELSE series[1][2] + SumTotals(Tail(series))

AmountOf(v) == IF Kind(v) = "num" THEN Val(v) ELSE 0

RECURSIVE DirectSum(_, _, _)
DirectSum(df, c, n) ==
    IF n = 0 THEN 0 ELSE DirectSum(df, c, n - 1) + AmountOf(Cell(df, n, c))

C8_MonthlyTotalsSumToIncome ==
    (pc \in AfterMetricas /\ col_monto # None /\ col_fecha # None) =>
        /\ \A i, j \in 1..Len(df_trend) : i < j => df_trend[i][1] < df_trend[j][1]
        /\ SumTotals(df_trend) = ingreso_total
        /\ ingreso_total = DirectSum(df_master, col_monto, Len(df_master.rows))

C8_Witness ==
    /\ pc = "analisis"
    /\ col_monto = ColMonto /\ col_fecha = ColFecha
    /\ Len(df_master.rows) = 3
    /\ \E r \in 1..3 : Cell(df_master, r, ColMonto) = NULL
    /\ Len(df_trend) = 16
    /\ ingreso_total = 130

(***************************************************************************)
(* C10: each category aggregation has one entry per distinct value of the  *)
(* role's column, with total the sum of the amounts of the rows having     *)
(* that value, ordered by total descending; the product and location       *)
(* summaries hold at most 10 entries, the 10 largest totals; the region    *)
(* summary holds every distinct value.                                     *)
(***************************************************************************)
RECURSIVE TotalOf(_, _, _, _)
TotalOf(df, ck, key, n) ==
    IF n = 0 THEN 0
    ELSE TotalOf(df, ck, key, n - 1) +
         (IF Cell(df, n, ck) = key THEN AmountOf(Cell(df, n, col_monto)) ELSE 0)

DistinctValues(df, ck) == {Cell(df, r, ck) : r \in 1..Len(df.rows)} \ {NULL}

\* a summary of column ck: correct entries, no key twice, totals descending
IsSummary(result, df, ck) ==
    /\ \A k \in 1..Len(result) :
          /\ result[k][1] \in DistinctValues(df, ck)
          /\ result[k][2] = TotalOf(df, ck, result[k][1], Len(df.rows))
    /\ \A i, j \in 1..Len(result) : result[i][1] = result[j][1] => i = j
    /\ \A i, j \in 1..Len(result) : i < j => result[i][2] >= result[j][2]

IsFullSummary(result, df, ck) ==
    /\ IsSummary(result, df, ck)
    /\ Len(result) = Cardinality(DistinctValues(df, ck))

IsTopSummary(result, df, ck) ==
    /\ IsSummary(result, df, ck)
    /\ Len(result) <= 10
    /\ Len(result) = IF Cardinality(DistinctValues(df, ck)) < 10
                     THEN Cardinality(DistinctValues(df, ck)) ELSE 10
    /\ \A v \in DistinctValues(df, ck) :
          (\A k \in 1..Len(result) : result[k][1] # v) =>
              \A k \in 1..Len(result) : result[k][2] >= TotalOf(df, ck, v, Len(df.rows))

C10_CategorySummaries ==
    (pc = "done" /\ col_monto # None) =>
        /\ col_prod # None => IsTopSummary(df_top, df_master, col_prod)
        /\ col_loc # None => IsTopSummary(df_loc, df_master, col_loc)
        /\ col_reg # None => IsFullSummary(df_reg, df_master, col_reg)

C10_Witness ==
    /\ pc = "done"
    /\ Len(df_master.rows) = 12
    /\ col_prod = ColSku /\ col_loc = ColTienda /\ col_reg = ColCiudad
    /\ Cardinality(DistinctValues(df_master, ColTienda)) = 12
    /\ Len(df_top) = 10 /\ Len(df_loc) = 10 /\ Len(df_reg) = 12
    /\ \E r \in 1..12 : Cell(df_master, r, ColMonto) = NULL
    /\ \E r \in 1..12 : Cell(df_master, r, ColSku) = NULL

====
